---- MODULE Spec2Model ----
(***************************************************************************)
(* Model of gen_clangd.py (skills/gen-clangd/scripts): the generator that  *)
(* scans a C project for #include directives, resolves every header to    *)
(* include flags and rewrites <root>/.clangd, keeping the Remove list of   *)
(* the previous file.                                                      *)
(*                                                                         *)
(* A Python str is a sequence of one-character strings, so that split,     *)
(* startswith, replace, strip and sorted are computed as Python computes   *)
(* them.                                                                   *)
(***************************************************************************)
EXTENDS Naturals, Sequences, FiniteSets, TLC

VARIABLES
    tree,                   \* the files under project_root (not .clangd)
    fs,                     \* the paths outside the sources for which Path.exists() is true
    pkg,                    \* what running pkg-config --cflags <package> does
    yaml,                   \* TRUE when "import yaml" succeeded (line 15)
    clangd,                 \* <root>/.clangd
    before,                 \* <root>/.clangd as the last run found it
    ran,                    \* TRUE once main() has run
    stale,                  \* TRUE when sources or lookups changed since the last run
    exit_status,            \* exit status of the last run
    stderr,                 \* warnings the last run printed
    add_flags,              \* add_flags of the last run
    existing_remove_flags,  \* existing_remove_flags of the last run
    resolved,               \* header -> what find_library_paths did for it, last run
    pkg_calls               \* packages pkg-config was run for, in order, last run

vars == <<tree, fs, pkg, yaml, clangd, before, ran, stale, exit_status, stderr,
          add_flags, existing_remove_flags, resolved, pkg_calls>>

-----------------------------------------------------------------------------
(* Python str operations *)

\* ord(c) for the characters that occur (sorted() compares code points)
Ord(c) ==
    CASE c = "\n" -> 10  [] c = " " -> 32   [] c = "\"" -> 34 [] c = "#" -> 35
      [] c = "'" -> 39   [] c = "*" -> 42   [] c = "-" -> 45  [] c = "." -> 46
      [] c = "/" -> 47   [] c = ":" -> 58   [] c = "A" -> 65  [] c = "C" -> 67
      [] c = "D" -> 68   [] c = "F" -> 70   [] c = "G" -> 71  [] c = "I" -> 73
      [] c = "L" -> 76   [] c = "R" -> 82   [] c = "W" -> 87  [] c = "[" -> 91
      [] c = "]" -> 93   [] c = "a" -> 97   [] c = "b" -> 98  [] c = "c" -> 99
      [] c = "d" -> 100  [] c = "e" -> 101  [] c = "f" -> 102 [] c = "g" -> 103
      [] c = "h" -> 104  [] c = "i" -> 105  [] c = "k" -> 107 [] c = "l" -> 108
      [] c = "m" -> 109  [] c = "n" -> 110  [] c = "o" -> 111 [] c = "p" -> 112
      [] c = "r" -> 114  [] c = "s" -> 115  [] c = "t" -> 116 [] c = "u" -> 117
      [] c = "v" -> 118  [] c = "w" -> 119  [] c = "x" -> 120 [] c = "y" -> 121
      [] c = "{" -> 123  [] c = "}" -> 125

RECURSIVE StrLess(_, _)
\* a < b on str: the first differing code point decides, a proper prefix is smaller
StrLess(a, b) ==
    IF b = <<>> THEN FALSE
    ELSE IF a = <<>> THEN TRUE
    ELSE IF a[1] # b[1] THEN Ord(a[1]) < Ord(b[1])
    ELSE StrLess(Tail(a), Tail(b))

RECURSIVE sorted(_)
\* sorted(S) of a set of str
sorted(S) ==
    IF S = {} THEN <<>>
    ELSE LET m == CHOOSE x \in S : \A y \in S \ {x} : StrLess(x, y)
         IN  <<m>> \o sorted(S \ {m})

\* the elements of a list
Range(s) == {s[i] : i \in 1..Len(s)}

\* s.startswith(p)
StartsWith(s, p) == Len(s) >= Len(p) /\ SubSeq(s, 1, Len(p)) = p

\* p in s (p not empty)
Contains(s, p) ==
    \E i \in 1..Len(s) : i + Len(p) - 1 <= Len(s) /\ SubSeq(s, i, i + Len(p) - 1) = p

RECURSIVE Replace(_, _, _)
\* s.replace(old, new): every non-overlapping occurrence, left to right
Replace(s, old, new) ==
    IF Len(s) < Len(old) THEN s
    ELSE IF StartsWith(s, old)
         THEN new \o Replace(SubSeq(s, Len(old) + 1, Len(s)), old, new)
         ELSE <<s[1]>> \o Replace(Tail(s), old, new)

RECURSIVE LStrip(_, _)
LStrip(s, chars) ==
    IF s # <<>> /\ s[1] \in chars THEN LStrip(Tail(s), chars) ELSE s

RECURSIVE RStrip(_, _)
RStrip(s, chars) ==
    IF s # <<>> /\ s[Len(s)] \in chars THEN RStrip(SubSeq(s, 1, Len(s) - 1), chars) ELSE s

\* s.strip(chars)
Strip(s, chars) == RStrip(LStrip(s, chars), chars)

Whitespace == {" ", "\n"}

RECURSIVE Split(_, _)
\* s.split(sep) for a one-character sep: empty fields are kept
Split(s, sep) ==
    IF \A i \in 1..Len(s) : s[i] # sep THEN <<s>>
    ELSE LET i == CHOOSE k \in 1..Len(s) :
                      s[k] = sep /\ \A j \in 1..(k - 1) : s[j] # sep
         IN  <<SubSeq(s, 1, i - 1)>> \o Split(SubSeq(s, i + 1, Len(s)), sep)

\* s.split(): fields between runs of whitespace, no empty field
SplitWs(s) ==
    LET RECURSIVE go(_, _)
        go(rest, cur) ==
            IF rest = <<>> THEN (IF cur = <<>> THEN <<>> ELSE <<cur>>)
            ELSE IF rest[1] \in Whitespace
                 THEN (IF cur = <<>> THEN <<>> ELSE <<cur>>) \o go(Tail(rest), <<>>)
                 ELSE go(Tail(rest), Append(cur, rest[1]))
    IN  go(s, <<>>)

RECURSIVE Concat(_)
\* "".join(parts)
Concat(parts) == IF parts = <<>> THEN <<>> ELSE Head(parts) \o Concat(Tail(parts))

\* [f for f in s if f.startswith(p)]
SelectSeqStartsWith(s, p) == SelectSeq(s, LAMBDA f : StartsWith(f, p))

-----------------------------------------------------------------------------
(* The project and the host *)

project_root == <<"/", "p">>

\* header names that the sources include
GL_gl_h  == <<"G", "L", "/", "g", "l", ".", "h">>
GL_glu_h == <<"G", "L", "/", "g", "l", "u", ".", "h">>
local_h  == <<"l", "o", "c", "a", "l", ".", "h">>
stdio_h  == <<"s", "t", "d", "i", "o", ".", "h">>

\* A file under project_root: its path relative to the root, whether open() and
\* read() succeed, and what the two regular expressions of extract_includes find.
File(path, readable, sys, loc) ==
    [path |-> path, readable |-> readable, system_includes |-> sys, local_includes |-> loc]

main_c   == File(<<"m", "a", "i", "n", ".", "c">>, TRUE, <<GL_gl_h, stdio_h>>, <<local_h>>)
local_hf == File(local_h, TRUE, <<GL_glu_h, stdio_h>>, <<>>)
gl_hf    == File(GL_gl_h, TRUE, <<stdio_h>>, <<>>)
notes_md == File(<<"n", "o", "t", "e", "s", ".", "m", "d">>, TRUE, <<GL_glu_h>>, <<>>)
bad_c    == File(<<"b", "a", "d", ".", "c">>, FALSE, <<GL_glu_h>>, <<>>)

\* the files a developer adds and deletes
FileUniverse == {main_c, local_hf, gl_hf, bad_c}

\* the largest number of files in the project
MaxFiles == 2

Trees == {t \in SUBSET FileUniverse : Cardinality(t) <= MaxFiles}

usr_include           == <<"/", "u", "s", "r", "/", "i", "n", "c", "l", "u", "d", "e">>
usr_local_include     == <<"/", "u", "s", "r", "/", "l", "o", "c", "a", "l", "/", "i", "n", "c", "l", "u", "d", "e">>
opt_homebrew_include  == <<"/", "o", "p", "t", "/", "h", "o", "m", "e", "b", "r", "e", "w", "/", "i", "n", "c", "l", "u", "d", "e">>

\* standard_paths (lines 93-97)
standard_paths == <<usr_include, usr_local_include, opt_homebrew_include>>

\* Path(a) / b
PathJoin(a, b) == a \o <<"/">> \o b

\* homebrew_paths (lines 84-87)
homebrew_paths(lib_name) ==
    << <<"/", "o", "p", "t", "/", "h", "o", "m", "e", "b", "r", "e", "w", "/", "o", "p", "t", "/">>
           \o lib_name \o <<"/", "i", "n", "c", "l", "u", "d", "e">>,
       <<"/", "u", "s", "r", "/", "l", "o", "c", "a", "l", "/", "o", "p", "t", "/">>
           \o lib_name \o <<"/", "i", "n", "c", "l", "u", "d", "e">> >>

GL == <<"G", "L">>

\* paths outside the project that may exist on the host
FsUniverse ==
    { homebrew_paths(GL)[1], homebrew_paths(GL)[2],
      PathJoin(usr_include, stdio_h), PathJoin(usr_include, GL_gl_h),
      PathJoin(usr_local_include, GL_gl_h) }

\* the largest number of those paths that exist at once
MaxPaths == 2

Hosts == {h \in SUBSET FsUniverse : Cardinality(h) <= MaxPaths}

\* timeout=5 (line 57)
timeout == 5

\* What pkg-config --cflags <package> does on the host: whether the command is
\* installed, how many seconds it takes, its exit status and its standard output.
PkgOutcome(installed, seconds, returncode, stdout) ==
    [installed |-> installed, seconds |-> seconds, returncode |-> returncode, stdout |-> stdout]

PkgHit       == PkgOutcome(TRUE, 0, 0, <<"-", "I", "/", "g", " ", "-", "D", "G", "\n">>)
PkgNoInclude == PkgOutcome(TRUE, 0, 0, <<"-", "D", "G", "\n">>)
PkgFailed    == PkgOutcome(TRUE, 0, 1, <<"-", "I", "/", "g", "\n">>)
PkgHangs     == PkgOutcome(TRUE, timeout + 1, 0, <<"-", "I", "/", "g", "\n">>)
PkgMissing   == PkgOutcome(FALSE, 0, 0, <<>>)

PkgOutcomes == {PkgHit, PkgNoInclude, PkgFailed, PkgHangs, PkgMissing}

Packages == {GL}

\* Path(p).exists(): a file of the project, or a path of the host
Exists(p) == p \in fs \/ \E f \in tree : PathJoin(project_root, f.path) = p

\* str(Path(p).parent)
Parent(p) ==
    LET i == CHOOSE k \in 1..Len(p) : p[k] = "/" /\ \A j \in (k + 1)..Len(p) : p[j] # "/"
    IN  IF i = 1 THEN <<"/">> ELSE SubSeq(p, 1, i - 1)

-----------------------------------------------------------------------------
(* Scanner *)

\* s.endswith(p)
EndsWith(s, p) == Len(s) >= Len(p) /\ SubSeq(s, Len(s) - Len(p) + 1, Len(s)) = p

\* every order in which a directory walk may yield the files of S
Orders(S) ==
    {o \in [1..Cardinality(S) -> S] : \A i, j \in 1..Cardinality(S) : o[i] = o[j] => i = j}

\* the files project_root.rglob(ext) yields, in any order
rglob(ext) == Orders({f \in tree : EndsWith(f.path, ext)})

\* find_c_files: the lists it may return, the *.c files before the *.h files
find_c_files ==
    {c \o h : c \in rglob(<<".", "c">>), h \in rglob(<<".", "h">>)}

\* extract_includes: (system_includes, local_includes), or ([], []) with a
\* warning when the file cannot be read
extract_includes(file_path) ==
    IF file_path.readable
    THEN [system |-> file_path.system_includes, local |-> file_path.local_includes,
          warned |-> FALSE]
    ELSE [system |-> <<>>, local |-> <<>>, warned |-> TRUE]

-----------------------------------------------------------------------------
(* Resolver *)

\* subprocess.run([...], timeout=5): the completed process, or the exception raised
subprocess_run(package) ==
    LET o == pkg[package]
    IN  IF ~o.installed THEN [raised |-> TRUE, returncode |-> 0, stdout |-> <<>>]
        ELSE IF o.seconds > timeout THEN [raised |-> TRUE, returncode |-> 0, stdout |-> <<>>]
        ELSE [raised |-> FALSE, returncode |-> o.returncode, stdout |-> o.stdout]

\* get_pkg_config_cflags without the test of line 59: the -I tokens of any exit status
get_pkg_config_cflags_any_status(package) ==
    IF subprocess_run(package).raised THEN [exc |-> FALSE, val |-> <<>>]
    ELSE [exc |-> FALSE,
          val |-> SelectSeqStartsWith(
                      SplitWs(Strip(subprocess_run(package).stdout, Whitespace)), <<"-", "I">>)]

\* get_pkg_config_cflags: exc is TRUE when an exception leaves the function
get_pkg_config_cflags(package) ==
    LET result == subprocess_run(package)
    IN  IF result.raised THEN [exc |-> FALSE, val |-> <<>>]
        ELSE IF result.returncode = 0
             THEN [exc |-> FALSE,
                   val |-> SelectSeqStartsWith(SplitWs(Strip(result.stdout, Whitespace)),
                                               <<"-", "I">>)]
             ELSE [exc |-> FALSE, val |-> <<>>]

\* what one call of find_library_paths did: the flags returned, the tiers it
\* consulted in order, the packages it ran pkg-config for
Resolution(exc, flags, consulted, calls) ==
    [exc |-> exc, flags |-> flags, consulted |-> consulted, calls |-> calls]

\* lines 92-104: the first standard path under which the header exists
StandardTier(header_name) ==
    LET hits == SelectSeq(standard_paths, LAMBDA p : Exists(PathJoin(p, header_name)))
    IN  IF hits = <<>> THEN <<>> ELSE << <<"-", "I">> \o hits[1] >>

\* lines 84-90: every installation directory of the library that exists
HomebrewTier(lib_name) ==
    LET found == SelectSeq(homebrew_paths(lib_name), Exists)
    IN  [i \in 1..Len(found) |-> <<"-", "I">> \o found[i]]

\* find_library_paths with the standard paths tried before pkg-config
find_library_paths_standard_first(header_name) ==
    IF Exists(PathJoin(project_root, header_name))
    THEN Resolution(FALSE, <<Parent(PathJoin(project_root, header_name))>>, <<"local">>, <<>>)
    ELSE IF StandardTier(header_name) # <<>> \/ Len(Split(header_name, "/")) <= 1
    THEN Resolution(FALSE, StandardTier(header_name), <<"local", "standard">>, <<>>)
    ELSE IF get_pkg_config_cflags(Split(header_name, "/")[1]).val # <<>>
    THEN Resolution(FALSE, get_pkg_config_cflags(Split(header_name, "/")[1]).val,
                    <<"local", "standard", "pkg-config">>, <<Split(header_name, "/")[1]>>)
    ELSE Resolution(FALSE, HomebrewTier(Split(header_name, "/")[1]),
                    <<"local", "standard", "pkg-config", "homebrew">>,
                    <<Split(header_name, "/")[1]>>)

find_library_paths(header_name) ==
    LET local_path == PathJoin(project_root, header_name)
        parts == Split(header_name, "/")
    IN  IF Exists(local_path)
        THEN Resolution(FALSE, <<Parent(local_path)>>, <<"local">>, <<>>)
        ELSE IF Len(parts) > 1
        THEN LET lib_name == parts[1]
                 pkg_flags == get_pkg_config_cflags(lib_name)
             IN  IF pkg_flags.exc
                 THEN Resolution(TRUE, <<>>, <<"local", "pkg-config">>, <<lib_name>>)
                 ELSE IF pkg_flags.val # <<>>
                 THEN Resolution(FALSE, pkg_flags.val, <<"local", "pkg-config">>, <<lib_name>>)
                 ELSE IF HomebrewTier(lib_name) # <<>>
                 THEN Resolution(FALSE, HomebrewTier(lib_name),
                                 <<"local", "pkg-config", "homebrew">>, <<lib_name>>)
                 ELSE Resolution(FALSE, StandardTier(header_name),
                                 <<"local", "pkg-config", "homebrew", "standard">>, <<lib_name>>)
        ELSE Resolution(FALSE, StandardTier(header_name), <<"local", "standard">>, <<>>)

-----------------------------------------------------------------------------
(* Aggregator *)

RECURSIVE ResolveAll(_)
\* the loop of lines 131-134 over the headers left: one Resolution per header
ResolveAll(headers) ==
    IF headers = <<>> THEN <<>>
    ELSE <<find_library_paths(Head(headers))>> \o ResolveAll(Tail(headers))

\* every header some file includes (lines 119-123)
AllHeaders(c_files) ==
    UNION {Range(extract_includes(c_files[i]).system)
           \cup Range(extract_includes(c_files[i]).local) : i \in 1..Len(c_files)}

\* Aggregate with needed_flags kept as a list in the order the files were found,
\* neither sorted nor freed of duplicates
Aggregate_unsorted(c_files, order, res) ==
    [exc |-> \E i \in 1..Len(res) : res[i].exc,
     flags |-> Concat([k \in 1..Len(c_files) |->
                  Concat([i \in 1..Len(extract_includes(c_files[k]).system) |->
                      res[CHOOSE j \in 1..Len(order) :
                              order[j] = extract_includes(c_files[k]).system[i]].flags])]),
     stderr |-> IF \E i \in 1..Len(c_files) : extract_includes(c_files[i]).warned
                THEN {"Could not read"} ELSE {},
     resolved |-> [h \in Range(order) |-> res[CHOOSE i \in 1..Len(order) : order[i] = h]],
     calls |-> Concat([i \in 1..Len(res) |-> res[i].calls])]

\* lines 128-136, with the headers in sorted order and their resolutions
Aggregate(c_files, order, res) ==
    [exc |-> \E i \in 1..Len(res) : res[i].exc,
     flags |-> sorted(UNION {Range(res[i].flags) : i \in 1..Len(res)}),
     stderr |-> IF \E i \in 1..Len(c_files) : extract_includes(c_files[i]).warned
                THEN {"Could not read"} ELSE {},
     resolved |-> [h \in Range(order) |-> res[CHOOSE i \in 1..Len(order) : order[i] = h]],
     calls |-> Concat([i \in 1..Len(res) |-> res[i].calls])]

\* analyze_project, the files found in the order c_files
analyze_project(c_files) ==
    IF c_files = <<>>
    THEN [exc |-> FALSE, flags |-> <<>>, stderr |-> {"No C files found"},
          resolved |-> [h \in {} |-> Resolution(FALSE, <<>>, <<>>, <<>>)], calls |-> <<>>]
    ELSE Aggregate(c_files, sorted(AllHeaders(c_files)),
                   ResolveAll(sorted(AllHeaders(c_files))))

-----------------------------------------------------------------------------
(* Config Merger *)

\* <root>/.clangd: readable is FALSE when open() or read() raises (no read
\* access, or bytes that do not decode); the content of such a file is not text
ConfigFile(content) == [exists |-> TRUE, readable |-> TRUE, content |-> content]
Absent     == [exists |-> FALSE, readable |-> FALSE, content |-> <<>>]
Unreadable == [exists |-> TRUE, readable |-> FALSE, content |-> <<>>]

RECURSIVE ParseLines(_, _, _)
\* the loop of lines 162-170 over the lines left, with in_remove and remove_flags
ParseLines(lines, in_remove, remove_flags) ==
    IF lines = <<>> THEN remove_flags
    ELSE LET line == Head(lines)
         IN  IF Contains(line, <<"R", "e", "m", "o", "v", "e", ":">>)
             THEN ParseLines(Tail(lines), TRUE, remove_flags)
             ELSE IF in_remove
             THEN IF StartsWith(line, <<" ", " ", " ", " ", "-", " ">>)
                  THEN LET flag == Strip(Replace(line, <<" ", " ", " ", " ", "-", " ">>, <<>>),
                                         {"'", "\""})
                       IN  ParseLines(Tail(lines), in_remove, Append(remove_flags, flag))
                  ELSE IF line # <<>> /\ ~StartsWith(line, <<" ", " ", " ", " ">>)
                  THEN ParseLines(Tail(lines), FALSE, remove_flags)
                  ELSE ParseLines(Tail(lines), in_remove, remove_flags)
             ELSE ParseLines(Tail(lines), in_remove, remove_flags)

\* parse_existing_clangd without its except clause: a failed read leaves the function
parse_existing_clangd_uncaught(clangd_path) ==
    IF ~clangd_path.readable
    THEN [exc |-> TRUE, keys |-> {}, Remove |-> <<>>]
    ELSE [exc |-> FALSE, keys |-> {"Remove"},
          Remove |-> ParseLines(Split(clangd_path.content, "\n"), FALSE, <<>>)]

\* parse_existing_clangd: the dict returned ({'Remove': [...]} or {}); exc is TRUE
\* when an exception leaves the function
parse_existing_clangd(clangd_path) ==
    IF ~clangd_path.readable
    THEN [exc |-> FALSE, keys |-> {}, Remove |-> <<>>]
    ELSE [exc |-> FALSE, keys |-> {"Remove"},
          Remove |-> ParseLines(Split(clangd_path.content, "\n"), FALSE, <<>>)]

\* the lines '    - "<flag>"\n' of a list (lines 208-209, 212-213, 144-145, 149-150)
QuotedEntries(flags) ==
    Concat([i \in 1..Len(flags) |->
              <<" ", " ", " ", " ", "-", " ", "\"">> \o flags[i] \o <<"\"", "\n">>])

\* simple_yaml_dump(data, file_obj) for data = compile_flags, a dict whose keys
\* are among Add and Remove
simple_yaml_dump(data) ==
    <<"C", "o", "m", "p", "i", "l", "e", "F", "l", "a", "g", "s", ":", "\n">>
    \o (IF "Add" \in DOMAIN data
        THEN <<" ", " ", "A", "d", "d", ":", "\n">> \o QuotedEntries(data["Add"]) ELSE <<>>)
    \o (IF "Remove" \in DOMAIN data
        THEN <<" ", " ", "R", "e", "m", "o", "v", "e", ":", "\n">> \o QuotedEntries(data["Remove"])
        ELSE <<>>)

\* the emitter of lines 205-213 without the test of line 206
FallbackDump_add_always(add_fl, remove_fl) ==
    <<"C", "o", "m", "p", "i", "l", "e", "F", "l", "a", "g", "s", ":", "\n">>
    \o <<" ", " ", "A", "d", "d", ":", "\n">> \o QuotedEntries(add_fl)
    \o (IF remove_fl # <<>>
        THEN <<" ", " ", "R", "e", "m", "o", "v", "e", ":", "\n">> \o QuotedEntries(remove_fl)
        ELSE <<>>)

\* lines 205-213: the emitter used when yaml is not installed
FallbackDump(add_fl, remove_fl) ==
    <<"C", "o", "m", "p", "i", "l", "e", "F", "l", "a", "g", "s", ":", "\n">>
    \o (IF add_fl # <<>>
        THEN <<" ", " ", "A", "d", "d", ":", "\n">> \o QuotedEntries(add_fl) ELSE <<>>)
    \o (IF remove_fl # <<>>
        THEN <<" ", " ", "R", "e", "m", "o", "v", "e", ":", "\n">> \o QuotedEntries(remove_fl)
        ELSE <<>>)

\* PyYAML writes a str as a plain scalar unless it is empty, begins with an
\* indicator, begins or ends with a space, or holds ": " or " #"; then it writes
\* it between single quotes, each single quote inside doubled
YamlPlain(s) ==
    /\ s # <<>>
    /\ s[1] \notin {"#", "[", "]", "{", "}", "*", "'", "\"", " "}
    /\ ~(s[1] \in {"-", ":"} /\ (Len(s) = 1 \/ s[2] = " "))
    /\ s[Len(s)] \notin {" ", ":"}
    /\ ~Contains(s, <<":", " ">>)
    /\ ~Contains(s, <<" ", "#">>)
    /\ \A i \in 1..Len(s) : s[i] # "\n"

YamlScalar(s) ==
    IF YamlPlain(s) THEN s ELSE <<"'">> \o Replace(s, <<"'">>, <<"'", "'">>) \o <<"'">>

\* the lines '  - <scalar>\n' of a block sequence under a key indented by two:
\* PyYAML does not indent a sequence that is the value of a mapping key
YamlEntries(flags) ==
    Concat([i \in 1..Len(flags) |-> <<" ", " ", "-", " ">> \o YamlScalar(flags[i]) \o <<"\n">>])

\* yaml.dump({'CompileFlags': compile_flags}, f, default_flow_style=False,
\* sort_keys=False) (line 203): keys in insertion order, Add before Remove
yaml_dump(compile_flags) ==
    IF DOMAIN compile_flags = {}
    THEN <<"C", "o", "m", "p", "i", "l", "e", "F", "l", "a", "g", "s", ":", " ", "{", "}", "\n">>
    ELSE <<"C", "o", "m", "p", "i", "l", "e", "F", "l", "a", "g", "s", ":", "\n">>
         \o (IF "Add" \in DOMAIN compile_flags
             THEN <<" ", " ", "A", "d", "d", ":", "\n">> \o YamlEntries(compile_flags["Add"])
             ELSE <<>>)
         \o (IF "Remove" \in DOMAIN compile_flags
             THEN <<" ", " ", "R", "e", "m", "o", "v", "e", ":", "\n">>
                  \o YamlEntries(compile_flags["Remove"])
             ELSE <<>>)

\* compile_flags (lines 190-196): a key only for a list that is not empty
compile_flags(add_fl, remove_fl) ==
    [k \in (IF add_fl # <<>> THEN {"Add"} ELSE {})
           \cup (IF remove_fl # <<>> THEN {"Remove"} ELSE {}) |->
        IF k = "Add" THEN add_fl ELSE remove_fl]

\* lines 182-213 of generate_clangd, given what analyze_project returned and the
\* Remove list taken from the existing file
Merge(analysis, exc, remove_fl) ==
    [exc |-> analysis.exc \/ exc,
     add_flags |-> analysis.flags,
     existing_remove_flags |-> remove_fl,
     text |-> IF yaml
              THEN yaml_dump(compile_flags(analysis.flags, remove_fl))
              ELSE FallbackDump(analysis.flags, remove_fl),
     stderr |-> analysis.stderr
                \cup (IF analysis.flags = <<>> THEN {"No include paths found"} ELSE {}),
     resolved |-> analysis.resolved,
     calls |-> analysis.calls]

\* existing.get('Remove', []) (line 186)
GetRemove(existing) == IF "Remove" \in existing.keys THEN existing.Remove ELSE <<>>

\* generate_clangd, the files found in the order c_files: what the run computed
\* and the text it wrote; exc is TRUE when an exception leaves the function
\* before the file is opened for writing
generate_clangd(c_files) ==
    IF clangd.exists
    THEN Merge(analyze_project(c_files), parse_existing_clangd(clangd).exc,
               GetRemove(parse_existing_clangd(clangd)))
    ELSE Merge(analyze_project(c_files), FALSE, <<>>)

-----------------------------------------------------------------------------
(* State machine *)

NoResolution == [h \in {} |-> Resolution(FALSE, <<>>, <<>>, <<>>)]

\* nothing has run yet
Fresh ==
    /\ before = Absent
    /\ ran = FALSE
    /\ stale = FALSE
    /\ exit_status = 0
    /\ stderr = {}
    /\ add_flags = <<>>
    /\ existing_remove_flags = <<>>
    /\ resolved = NoResolution
    /\ pkg_calls = <<>>

\* main(): one run of the tool on project_root; the directory walk yields the
\* sources in any order.  An exception is caught at lines 246-250: exit status 1
\* and .clangd is left as it was.
Run ==
    /\ ran' = TRUE
    /\ stale' = FALSE
    /\ before' = clangd
    /\ UNCHANGED <<tree, fs, pkg, yaml>>
    /\ \E c_files \in find_c_files :
           \E r \in {generate_clangd(c_files)} :
               /\ exit_status' = IF r.exc THEN 1 ELSE 0
               /\ clangd' = IF r.exc THEN clangd ELSE ConfigFile(r.text)
               /\ stderr' = r.stderr
               /\ add_flags' = r.add_flags
               /\ existing_remove_flags' = r.existing_remove_flags
               /\ resolved' = r.resolved
               /\ pkg_calls' = r.calls

\* the developer adds a file to the project or deletes one, after a run
EditSources ==
    /\ ran /\ ~stale
    /\ \E f \in FileUniverse :
           /\ tree' = IF f \in tree THEN tree \ {f} ELSE tree \cup {f}
           /\ tree' \in Trees
    /\ stale' = TRUE
    /\ UNCHANGED <<fs, pkg, yaml, clangd, before, ran, exit_status, stderr, add_flags,
                   existing_remove_flags, resolved, pkg_calls>>

\* pkg-config starts to answer differently for a package, after a run
ChangePkg ==
    /\ ran /\ ~stale
    /\ \E package \in Packages, o \in PkgOutcomes :
           /\ pkg[package] # o
           /\ pkg' = [pkg EXCEPT ![package] = o]
    /\ stale' = TRUE
    /\ UNCHANGED <<tree, fs, yaml, clangd, before, ran, exit_status, stderr, add_flags,
                   existing_remove_flags, resolved, pkg_calls>>

\* flags a user lists under Remove
Wno_foo == <<"-", "W", "n", "o", "-", "f", "o", "o">>
Wall    == <<"-", "W", "a", "l", "l">>

RemoveFlagUniverse == {Wno_foo, Wall}

\* the longest Remove list a user writes
MaxRemove == 2

RemoveLists == UNION {[1..n -> RemoveFlagUniverse] : n \in 0..MaxRemove}

AddLists == {<<>>, << <<"-", "I", "/", "x">> >>}

\* .clangd as a user may leave it: in the layout of simple_yaml_dump, with a flow
\* sequence, with a Remove key and no entry, empty, not readable, or deleted
UserConfigs ==
    {ConfigFile(simple_yaml_dump(compile_flags(a, r))) : a \in AddLists, r \in RemoveLists}
    \cup {ConfigFile(<<"C", "o", "m", "p", "i", "l", "e", "F", "l", "a", "g", "s", ":", "\n",
                       " ", " ", "R", "e", "m", "o", "v", "e", ":", " ",
                       "[", "-", "W", "n", "o", "-", "f", "o", "o", "]", "\n">>),
          ConfigFile(<<"C", "o", "m", "p", "i", "l", "e", "F", "l", "a", "g", "s", ":", "\n",
                       " ", " ", "R", "e", "m", "o", "v", "e", ":", "\n">>),
          ConfigFile(<<>>), Unreadable, Absent}

\* the user rewrites or deletes .clangd
EditClangd ==
    /\ \E c \in UserConfigs : clangd # c /\ clangd' = c
    /\ UNCHANGED <<tree, fs, pkg, yaml, before, ran, stale, exit_status, stderr, add_flags,
                   existing_remove_flags, resolved, pkg_calls>>

\* PyYAML is installed or uninstalled
InstallYaml ==
    /\ yaml' = ~yaml
    /\ UNCHANGED <<tree, fs, pkg, clangd, before, ran, stale, exit_status, stderr, add_flags,
                   existing_remove_flags, resolved, pkg_calls>>

\* Merging: a project with or without C sources on one host, any user config
Init ==
    /\ tree \in SUBSET {main_c, local_hf, notes_md}
    /\ fs = {PathJoin(usr_include, stdio_h)}
    /\ pkg = [package \in Packages |-> PkgHit]
    /\ yaml \in BOOLEAN
    /\ clangd \in UserConfigs
    /\ Fresh

Next == Run \/ EditClangd \/ InstallYaml

Spec == Init /\ [][Next]_vars

\* Resolving: any project on any host, no config yet
InitResolve ==
    /\ tree \in Trees
    /\ fs \in Hosts
    /\ pkg \in [Packages -> PkgOutcomes]
    /\ yaml = FALSE
    /\ clangd = Absent
    /\ Fresh

NextResolve == Run \/ EditSources \/ ChangePkg

SpecResolve == InitResolve /\ [][NextResolve]_vars

\* lines of a .clangd file
LineUniverse ==
    { <<"C", "o", "m", "p", "i", "l", "e", "F", "l", "a", "g", "s", ":">>,
      <<" ", " ", "R", "e", "m", "o", "v", "e", ":">>,
      <<" ", " ", "A", "d", "d", ":">>,
      <<" ", " ", " ", " ", "-", " ", "\"", "-", "W", "n", "o", "-", "f", "o", "o", "\"">>,
      <<" ", " ", " ", " ", "-", " ", "-", "W", "a", "l", "l">>,
      <<" ", " ", " ", " ", " ", " ", "-", " ", "\"", "-", "W", "a", "l", "l", "\"">>,
      <<" ", " ", "-", " ", "-", "W", "a", "l", "l">>,
      <<"D", "i", "a", "g", "n", "o", "s", "t", "i", "c", "s", ":">>,
      <<>> }

\* the longest file parsed
MaxLines == 4

\* the text of a file with the given lines
Text(lines) == Concat([i \in 1..Len(lines) |-> lines[i] \o <<"\n">>])

Texts == {Text(ls) : ls \in UNION {[1..n -> LineUniverse] : n \in 0..MaxLines}}

\* Parsing: parse_existing_clangd alone, on any file of at most MaxLines lines
InitParse ==
    /\ tree = {}
    /\ fs = {}
    /\ pkg = [package \in Packages |-> PkgMissing]
    /\ yaml = FALSE
    /\ clangd \in {ConfigFile(t) : t \in Texts}
    /\ Fresh

\* generate_clangd lines 184-186: the Remove list taken from the existing file
Parse ==
    /\ ~ran
    /\ ran' = TRUE
    /\ before' = clangd
    /\ existing_remove_flags' = parse_existing_clangd(clangd).Remove
    /\ UNCHANGED <<tree, fs, pkg, yaml, clangd, stale, exit_status, stderr, add_flags,
                   resolved, pkg_calls>>

NextParse == Parse

SpecParse == InitParse /\ [][NextParse]_vars

-----------------------------------------------------------------------------
(* Reading a config as YAML, to state what a file holds *)

\* the lines of a text
Lines(text) == Split(text, "\n")

\* a scalar without its quotes: "..." and '...' (with '' for a quote) or plain
Unquote(s) ==
    IF Len(s) >= 2 /\ s[1] = "\"" /\ s[Len(s)] = "\""
    THEN SubSeq(s, 2, Len(s) - 1)
    ELSE IF Len(s) >= 2 /\ s[1] = "'" /\ s[Len(s)] = "'"
    THEN Replace(SubSeq(s, 2, Len(s) - 1), <<"'", "'">>, <<"'">>)
    ELSE s

\* a line "<spaces>- <scalar>"
IsEntry(line) == StartsWith(LStrip(line, {" "}), <<"-", " ">>)

EntryValue(line) ==
    LET body == LStrip(line, {" "}) IN Unquote(Strip(SubSeq(body, 3, Len(body)), {" "}))

\* some line holds just the key ("Add:" or "Remove:")
HasKey(text, key) == \E i \in 1..Len(Lines(text)) : Strip(Lines(text)[i], {" "}) = key

RECURSIVE EntryRun(_)
\* the values of the entry lines a list of lines starts with
EntryRun(lines) ==
    IF lines # <<>> /\ IsEntry(Head(lines))
    THEN <<EntryValue(Head(lines))>> \o EntryRun(Tail(lines))
    ELSE <<>>

\* the block sequence under the key: the entries on the lines after the key line,
\* whether indented more than the key or, as YAML also allows, as much as it
Section(text, key) ==
    IF ~HasKey(text, key) THEN <<>>
    ELSE LET ls == Lines(text)
             k == CHOOSE i \in 1..Len(ls) :
                      Strip(ls[i], {" "}) = key
                      /\ \A j \in 1..(i - 1) : Strip(ls[j], {" "}) # key
         IN  EntryRun(SubSeq(ls, k + 1, Len(ls)))

RemoveKey == <<"R", "e", "m", "o", "v", "e", ":">>
AddKey    == <<"A", "d", "d", ":">>

\* the Remove list and the Add list a config file holds
RemoveOf(file) == IF file.exists /\ file.readable THEN Section(file.content, RemoveKey) ELSE <<>>
AddOf(file)    == IF file.exists /\ file.readable THEN Section(file.content, AddKey) ELSE <<>>

-----------------------------------------------------------------------------
(* Claims about merging, under Spec *)

\* C1: every run on a root whose .clangd holds a Remove list writes a .clangd
\* that holds the same Remove list: same entries, same order, same content.
C1_RemovePreserved ==
    [][Run /\ RemoveOf(clangd) # <<>> => RemoveOf(clangd') = RemoveOf(clangd)]_vars

\* C10: the file a run writes for a Remove list is parsed back by
\* parse_existing_clangd into that same Remove list, whichever emitter wrote it.
C10_RoundTrip ==
    [][Run => parse_existing_clangd(clangd').Remove = existing_remove_flags']_vars

\* an existing config without a usable Remove list: absent, unreadable, empty,
\* without a Remove: marker, or with no line "    - ..." after the first marker
Degenerate(file) ==
    \/ ~file.exists
    \/ ~file.readable
    \/ file.content = <<>>
    \/ ~Contains(file.content, RemoveKey)
    \/ LET ls == Lines(file.content)
       IN  \A i \in 1..Len(ls) :
               (\E j \in 1..(i - 1) : Contains(ls[j], RemoveKey))
               => ~StartsWith(ls[i], <<" ", " ", " ", " ", "-", " ">>)

\* C5: a run that finds .clangd absent, empty, unreadable or malformed takes the
\* Remove list to be empty, does not fail, and writes the config with the Add
\* flags it computed and no Remove key.
C5_DegenerateConfig ==
    [][Run /\ Degenerate(clangd) =>
           /\ existing_remove_flags' = <<>>
           /\ exit_status' = 0
           /\ clangd'.exists /\ clangd'.readable
           /\ AddOf(clangd') = add_flags'
           /\ ~HasKey(clangd'.content, RemoveKey)]_vars

\* a run found .clangd unreadable and wrote a config with its Add flags
C5_Witness ==
    /\ ran /\ before = Unreadable
    /\ exit_status = 0
    /\ existing_remove_flags = <<>>
    /\ add_flags # <<>>
    /\ AddOf(clangd) = add_flags

\* the project holds no *.c and no *.h file
NoCSources ==
    \A f \in tree : ~EndsWith(f.path, <<".", "c">>) /\ ~EndsWith(f.path, <<".", "h">>)

\* C6: a run on a tree without C sources resolves no header, warns, and writes a
\* config without an Add key; in every run the written config has the Add key
\* exactly when the Add list is not empty, and the Remove key exactly when the
\* Remove list is not empty.
C6_KeysOnlyWhenNonEmpty ==
    [][Run =>
           /\ NoCSources =>
                  /\ resolved' = NoResolution
                  /\ pkg_calls' = <<>>
                  /\ "No C files found" \in stderr'
                  /\ ~HasKey(clangd'.content, AddKey)
           /\ HasKey(clangd'.content, AddKey) <=> add_flags' # <<>>
           /\ HasKey(clangd'.content, RemoveKey) <=> existing_remove_flags' # <<>>]_vars

\* a run on a tree that holds files, none of them a C source
C6_Witness ==
    /\ ran /\ tree # {} /\ NoCSources
    /\ "No C files found" \in stderr
    /\ resolved = NoResolution
    /\ clangd.exists /\ clangd.readable
    /\ ~HasKey(clangd.content, AddKey)
    /\ HasKey(clangd.content, RemoveKey)

-----------------------------------------------------------------------------
(* Claims about resolving, under SpecResolve *)

TierOrder == <<"local", "pkg-config", "homebrew", "standard">>

TierRank(t) == CHOOSE i \in 1..Len(TierOrder) : TierOrder[i] = t

\* the header names a library: it has a first path segment
HasLib(h) == Len(Split(h, "/")) > 1
Lib(h) == Split(h, "/")[1]

\* what a tier, asked alone, yields for a header on the present host
TierYield(t, h) ==
    CASE t = "local" ->
             IF Exists(PathJoin(project_root, h))
             THEN <<Parent(PathJoin(project_root, h))>> ELSE <<>>
      [] t = "pkg-config" -> IF HasLib(h) THEN get_pkg_config_cflags(Lib(h)).val ELSE <<>>
      [] t = "homebrew" -> IF HasLib(h) THEN HomebrewTier(Lib(h)) ELSE <<>>
      [] t = "standard" -> StandardTier(h)

\* C2: find_library_paths consults the tiers in the order local, pkg-config,
\* homebrew, standard and returns what the first tier that yields any flag
\* yields: no tier before the last one consulted yields anything, the flags are
\* those of the last one consulted, and it stops at the first success.
C2_FirstTierWins ==
    (ran /\ ~stale) =>
        \A h \in DOMAIN resolved :
            LET c == resolved[h].consulted
                n == Len(c)
            IN  /\ n >= 1 /\ c[1] = "local"
                /\ \A i \in 1..(n - 1) : TierRank(c[i]) < TierRank(c[i + 1])
                /\ HasLib(h) => c = SubSeq(TierOrder, 1, n)
                /\ \A t \in Range(TierOrder) :
                       TierRank(t) < TierRank(c[n]) => TierYield(t, h) = <<>>
                /\ resolved[h].flags = TierYield(c[n], h)
                /\ resolved[h].flags = <<>> => c[n] = "standard"

\* GL/gl.h is under /usr/include and pkg-config knows GL: pkg-config wins
C2_Witness ==
    /\ ran /\ ~stale
    /\ GL_gl_h \in DOMAIN resolved
    /\ PathJoin(usr_include, GL_gl_h) \in fs
    /\ resolved[GL_gl_h].consulted = <<"local", "pkg-config">>
    /\ resolved[GL_gl_h].flags = << <<"-", "I", "/", "g">> >>

\* the headers the C sources of the project include
Scanned ==
    {h \in {GL_gl_h, GL_glu_h, local_h, stdio_h} :
        \E f \in tree :
            /\ EndsWith(f.path, <<".", "c">>) \/ EndsWith(f.path, <<".", "h">>)
            /\ f.readable
            /\ h \in Range(f.system_includes) \cup Range(f.local_includes)}

\* C3: the Add list of a run is the sorted, duplicate-free union of the flags
\* resolved for every scanned header, and a second run with sources and lookups
\* unchanged computes the same Add list and writes the same file, whatever the
\* order of file discovery and whether or not .clangd existed.
C3_Deterministic ==
    [][/\ (ran /\ ~stale) =>
              /\ DOMAIN resolved = Scanned
              /\ Range(add_flags) = UNION {Range(resolved[h].flags) : h \in DOMAIN resolved}
              /\ \A i \in 1..(Len(add_flags) - 1) : StrLess(add_flags[i], add_flags[i + 1])
       /\ (ran /\ ~stale /\ ~stale') => add_flags' = add_flags /\ clangd' = clangd]_vars

\* a second run in a row, on a project with several flags
C3_Witness ==
    /\ ran /\ ~stale
    /\ before.exists /\ before = clangd
    /\ Len(add_flags) >= 3

\* pkg-config ran, exited 0 and printed a -I token
PkgSuccess(o) ==
    /\ o.installed /\ o.seconds <= timeout /\ o.returncode = 0
    /\ \E i \in 1..Len(SplitWs(o.stdout)) : StartsWith(SplitWs(o.stdout)[i], <<"-", "I">>)

\* C4: whenever pkg-config does anything but exit 0 with a -I token, it
\* contributes no flag, the header goes on to the installation directories
\* (and from there to the standard paths), and the run ends with status 0
\* and .clangd written.
C4_PkgFailureFallsThrough ==
    (ran /\ ~stale) =>
        /\ exit_status = 0
        /\ clangd.exists /\ clangd.readable /\ AddOf(clangd) = add_flags
        /\ \A h \in DOMAIN resolved :
               ("pkg-config" \in Range(resolved[h].consulted) /\ ~PkgSuccess(pkg[Lib(h)])) =>
                   /\ get_pkg_config_cflags(Lib(h)) = [exc |-> FALSE, val |-> <<>>]
                   /\ "homebrew" \in Range(resolved[h].consulted)
                   /\ resolved[h].flags = IF HomebrewTier(Lib(h)) # <<>>
                                          THEN HomebrewTier(Lib(h)) ELSE StandardTier(h)

\* pkg-config is not installed and a GL header was resolved all the same
C4_Witness ==
    /\ ran /\ ~stale
    /\ pkg[GL] = PkgMissing
    /\ GL_glu_h \in DOMAIN resolved
    /\ "homebrew" \in Range(resolved[GL_glu_h].consulted)
    /\ resolved[GL_glu_h].flags # <<>>
    /\ exit_status = 0 /\ clangd.exists

\* a string of the form -I<directory>
IsIncludeFlag(f) == StartsWith(f, <<"-", "I">>) /\ Len(f) > 2

\* C7: every string find_library_paths returns, and so every entry of the Add
\* list, is an IncludeFlag -I<directory>, whichever tier resolved the header.
C7_AllIncludeFlags ==
    ran =>
        /\ \A h \in DOMAIN resolved :
               \A i \in 1..Len(resolved[h].flags) : IsIncludeFlag(resolved[h].flags[i])
        /\ \A i \in 1..Len(add_flags) : IsIncludeFlag(add_flags[i])

\* C8: in one run pkg-config is invoked at most once for each first path segment.
C8_OncePerSegment ==
    ran => \A i, j \in 1..Len(pkg_calls) : pkg_calls[i] = pkg_calls[j] => i = j

-----------------------------------------------------------------------------
(* Claim about parsing, under SpecParse *)

RECURSIVE CountLeading(_)
\* the number of spaces a line begins with
CountLeading(line) ==
    IF line # <<>> /\ line[1] = " " THEN 1 + CountLeading(Tail(line)) ELSE 0

RECURSIVE IndentedEntries(_, _, _, _)
\* The entries of the indented blocks that follow Remove: markers: after a
\* marker indented by m, every list entry indented by more than m, up to the
\* first line that is not blank and not indented by more than m.
IndentedEntries(lines, in_block, m, acc) ==
    IF lines = <<>> THEN acc
    ELSE LET line == Head(lines)
         IN  IF Contains(line, RemoveKey)
             THEN IndentedEntries(Tail(lines), TRUE, CountLeading(line), acc)
             ELSE IF ~in_block \/ line = <<>>
             THEN IndentedEntries(Tail(lines), in_block, m, acc)
             ELSE IF CountLeading(line) <= m
             THEN IndentedEntries(Tail(lines), FALSE, m, acc)
             ELSE IF IsEntry(line)
             THEN IndentedEntries(Tail(lines), TRUE, m, Append(acc, EntryValue(line)))
             ELSE IndentedEntries(Tail(lines), TRUE, m, acc)

\* C9: parse_existing_clangd returns exactly the indented list entries that
\* follow a Remove: marker, in file order, up to the line where the indentation
\* ends, each with its content.
C9_IndentedEntriesReturned ==
    ran => existing_remove_flags = IndentedEntries(Lines(clangd.content), FALSE, 0, <<>>)

====
